---- MODULE Spec2Model ----
(***************************************************************************)
(* Model of infer.py, the SSD inference driver: main() (argument handling, *)
(* checkpoint discovery, training-data load, file resolution, the scoped   *)
(* model session, the batch loop and the prediction dump) and the          *)
(* generator sample_generator() that feeds it.                             *)
(*                                                                         *)
(* A path is a sequence of its components, <<"d1", "a.jpg">> for d1/a.jpg. *)
(* An image is a record of the file it was decoded from and its shape; a   *)
(* row of the network's output is a record of the image it was computed    *)
(* from.  The network itself, cv2 and the file system are the environment. *)
(***************************************************************************)
EXTENDS Integers, Sequences, FiniteSets, TLC

\* ------------------------------------------------------------------ bounds
MaxFiles    == 3
MaxBatch    == 2
MaxCkpt     == 2
MaxRequests == 5

\* ------------------------------------------------------------ environment
\* The paths that can be given on the command line.
PathA1 == <<"d1", "a.jpg">>
PathA2 == <<"d2", "a.jpg">>
PathB  == <<"d1", "b.jpg">>
PathC  == <<"c.jpg">>
Paths  == {PathA1, PathA2, PathB, PathC}

\* The files present on disk (os.path.exists); PathC is missing.
Existing == {PathA1, PathA2, PathB}

\* The image size stored in the preset of the training data.
PresetSize == [w |-> 300, h |-> 200]
NoSize     == [w |-> 0, h |-> 0]

\* What the training-data file can turn out to be.
TrainingDataKinds == {"ok", "absent", "unreadable", "notpickle", "nopreset", "nosize"}

\* Values of --checkpoint that are tried: the default and one explicit index.
CheckpointArgs == {-1, 1}

SeqsUpTo(S, n) == UNION {[1..k -> S] : k \in 0..n}

\* ------------------------------------------------------------------ state
VARIABLES
    args,              \* the parsed command line
    pc,                \* position of main()
    nckpt,             \* len(state.all_model_checkpoint_paths)
    checkpoint_file,   \* 0-based index of the resolved checkpoint, -1 unset
    tdata,             \* what the training-data file turned out to be
    image_size,        \* preset.image_size
    files,             \* the list handed to sample_generator
    madedirs,          \* os.makedirs(args.output_dir) was called
    stdout,            \* the lines printed ('[!] ...' and '[i] All done.')
    ret,               \* return value of main(): "none", "0", "1"
    exc,               \* the exception that left main(), "" if none
    session,           \* tf.Session: "never", "held", "closed"
    acquisitions,      \* how many times a session was entered
    n_sample_batches,  \* the total announced to tqdm
    gen,               \* the frame of the generator
    reply,             \* what the last step of the generator produced
    requests,          \* number of next() calls made on the generator
    x, names,          \* the batch bound by the for loop
    boxes,             \* result of sess.run for that batch
    i,                 \* index of the dump loop
    readLog,           \* cv2.imread calls: the file and whether it decoded
    yielded,           \* batches yielded, in order
    inferLog,          \* inference calls made, in order
    writes,            \* np.save calls made, in order
    disk               \* content of the output directory: file name -> array

vars == <<args, pc, nckpt, checkpoint_file, tdata, image_size, files, madedirs,
          stdout, ret, exc, session, acquisitions, n_sample_batches, gen, reply,
          requests, x, names, boxes, i, readLog, yielded, inferLog, writes, disk>>

driverVars == <<args, pc, nckpt, checkpoint_file, tdata, image_size, files,
                madedirs, stdout, ret, exc, session, acquisitions,
                n_sample_batches, x, names, boxes, i, inferLog, writes, disk>>

\* ---------------------------------------------------------------- helpers
Min(a, b) == IF a < b THEN a ELSE b

\* os.path.basename: the last component of the path.
Basename(p) == p[Len(p)]

\* samples[offset:offset+batch_size] for a 0-based offset >= 0.
Slice_short(s, offset, n) == SubSeq(s, offset + 1, Min(offset + n - 1, Len(s)))
Slice(s, offset, n) == SubSeq(s, offset + 1, Min(offset + n, Len(s)))

\* The step of range(0, len(samples), batch_size).
RangeNext_skip(offset, n) == offset + n + 1
RangeNext_stuck(offset, n) == offset
RangeNext(offset, n) == offset + n

\* cv2.resize(cv2.imread(f), (w, h)).astype(float32): shape (h, w, 3).
Decode(f, size) == [src |-> f, shape |-> <<size.h, size.w, 3>>]

\* One row of sess.run(net.result) for one image of the batch.
Detect(image) == [of |-> image.src]

\* sess.run(net.result, feed_dict): one row per image, in the order fed.
RunNet(batch) == [j \in 1..Len(batch) |-> Detect(batch[j])]

\* args.output_dir + '/' + name + '.npy'
NpyName(name) == <<"output_dir", name, ".npy">>

\* int(math.ceil(len(files) / batch_size)) with true division, for b > 0.
CeilDiv_floor(n, b) == n \div b
CeilDiv(n, b) == IF n % b = 0 THEN n \div b ELSE (n \div b) + 1

\* list(filter(lambda x: os.path.exists(x), args.files))
FilterExisting_all(s) == s
RECURSIVE FilterExisting(_)
FilterExisting(s) ==
    IF s = <<>> THEN <<>>
    ELSE IF Head(s) \in Existing
         THEN <<Head(s)>> \o FilterExisting(Tail(s))
         ELSE FilterExisting(Tail(s))

\* state.all_model_checkpoint_paths[k] on a list of n entries: the 0-based
\* index, or -1 for IndexError.
ListIndex(k, n) ==
    IF 0 <= k /\ k < n THEN k
    ELSE IF k < 0 /\ -k <= n THEN n + k
    ELSE -1

\* Leaving the `with tf.Session()` block, normally or by an exception.
WithExit_leak(s) == s
WithExit(s) == IF s = "held" THEN "closed" ELSE s

\* np.save(fn, row): the file is created or overwritten.
Save(d, fn, row) == [f \in DOMAIN d \cup {fn} |-> IF f = fn THEN row ELSE d[f]]

NewGen == [state |-> "created", offset |-> 0, files |-> <<>>,
           images |-> <<>>, names |-> <<>>]
NoGen  == [state |-> "none", offset |-> 0, files |-> <<>>,
           images |-> <<>>, names |-> <<>>]

\* ------------------------------------------------------------------- Init
Args == [checkpoint : CheckpointArgs, annotate : BOOLEAN,
         dump_prediction : BOOLEAN, batch_size : 0..MaxBatch,
         files : SeqsUpTo(Paths, MaxFiles)]

InitCommon ==
    /\ nckpt = 0 /\ checkpoint_file = -1 /\ tdata = "unread"
    /\ madedirs = FALSE /\ stdout = <<>> /\ ret = "none" /\ exc = ""
    /\ session = "never" /\ acquisitions = 0 /\ n_sample_batches = 0
    /\ reply = "none" /\ requests = 0
    /\ x = <<>> /\ names = <<>> /\ boxes = <<>> /\ i = 0
    /\ readLog = <<>> /\ yielded = <<>> /\ inferLog = <<>> /\ writes = <<>>
    /\ disk = <<>>

\* main() entered with a parsed command line.
Init ==
    /\ args \in Args
    /\ pc = "start"
    /\ image_size = NoSize /\ files = <<>> /\ gen = NoGen
    /\ InitCommon

\* sample_generator(samples, image_size, batch_size) called on its own.
InitGen ==
    /\ args \in {a \in Args : a.batch_size > 0 /\ a.checkpoint = -1
                              /\ ~a.annotate /\ ~a.dump_prediction}
    /\ pc = "generator"
    /\ image_size = PresetSize /\ files = args.files /\ gen = NewGen
    /\ InitCommon

\* ----------------------------------------------------- sample_generator
\* next(generator): start or resume the frame up to the head of the loop
\* `for offset in range(0, len(samples), batch_size)`.
GenResume(samples, batch_size) ==
    /\ gen.state \in {"created", "suspended", "done"}
    /\ requests' = requests + 1
    /\ IF gen.state = "done"
       THEN gen' = gen /\ reply' = "done"
       ELSE LET off == IF gen.state = "created" THEN 0
                       ELSE RangeNext(gen.offset, batch_size)
            IN  IF off < Len(samples)
                THEN /\ gen' = [state |-> "running", offset |-> off,
                                files |-> Slice(samples, off, batch_size),
                                images |-> <<>>, names |-> <<>>]
                     /\ reply' = "pending"
                ELSE /\ gen' = [gen EXCEPT !.state = "done"]
                     /\ reply' = "done"
    /\ UNCHANGED <<readLog, yielded>>

\* One pass of `for image_file in files`: imread, resize, append, append.
\* cv2.imread gives None for a file it cannot decode and cv2.resize raises.
GenReadFile_skip(size) ==
    /\ gen.state = "running"
    /\ Len(gen.images) < Len(gen.files)
    /\ LET n == Len(gen.images)
           f == gen.files[n + 1]
       IN
        \E decoded \in (IF f \in Existing THEN BOOLEAN ELSE {FALSE}) :
            /\ readLog' = Append(readLog, [file |-> f, decoded |-> decoded])
            /\ reply' = reply
            /\ IF decoded
               THEN gen' = [gen EXCEPT !.images = Append(@, Decode(f, size)),
                                       !.names = Append(@, Basename(f))]
               ELSE gen' = [gen EXCEPT !.files = SubSeq(@, 1, n)
                                           \o SubSeq(@, n + 2, Len(@))]
    /\ UNCHANGED <<yielded, requests>>
GenReadFile(size) ==
    /\ gen.state = "running"
    /\ Len(gen.images) < Len(gen.files)
    /\ LET f == gen.files[Len(gen.images) + 1] IN
        \E decoded \in (IF f \in Existing THEN BOOLEAN ELSE {FALSE}) :
            /\ readLog' = Append(readLog, [file |-> f, decoded |-> decoded])
            /\ IF decoded
               THEN /\ gen' = [gen EXCEPT !.images = Append(@, Decode(f, size)),
                                          !.names = Append(@, Basename(f))]
                    /\ reply' = reply
               ELSE /\ gen' = [gen EXCEPT !.state = "done"]
                    /\ reply' = "error"
    /\ UNCHANGED <<yielded, requests>>

\* yield np.array(images), names
GenYield ==
    /\ gen.state = "running"
    /\ Len(gen.images) = Len(gen.files)
    /\ gen' = [gen EXCEPT !.state = "suspended"]
    /\ yielded' = Append(yielded, [offset |-> gen.offset,
                                   images |-> gen.images, names |-> gen.names])
    /\ reply' = "batch"
    /\ UNCHANGED <<readLog, requests>>

\* ------------------------------------------------------------------ main
genVars == <<gen, reply, requests, readLog, yielded>>
loopVars == <<x, names, boxes, i, inferLog, writes, disk>>
envVars == <<nckpt, checkpoint_file, tdata, image_size, files, madedirs>>

\* return 1 after printing one '[!]' line.
Report(line) ==
    /\ stdout' = Append(stdout, line)
    /\ ret' = "1"
    /\ pc' = "exit"
    /\ UNCHANGED <<exc, session, acquisitions>>

\* An exception leaves main(); the with block, if entered, is left.
Raise(e) ==
    /\ exc' = e
    /\ pc' = "crashed"
    /\ session' = WithExit(session)
    /\ UNCHANGED <<stdout, ret, acquisitions>>

Continue(next) ==
    /\ pc' = next
    /\ UNCHANGED <<stdout, ret, exc, session, acquisitions>>

GetCheckpointState ==
    /\ pc = "start"
    /\ \E found \in BOOLEAN :
        IF found
        THEN \E n \in 0..MaxCkpt : nckpt' = n /\ Continue("index")
        ELSE nckpt' = nckpt /\ Report("[!] No network state found")
    /\ UNCHANGED <<args, checkpoint_file, tdata, image_size, files, madedirs,
                   n_sample_batches>>
    /\ UNCHANGED <<genVars, loopVars>>

\* The except clause builds its message from args.checkpoint_file, which
\* the parser never defines: AttributeError leaves the handler.
ResolveCheckpoint ==
    /\ pc = "index"
    /\ LET k == ListIndex(args.checkpoint, nckpt) IN
        IF k >= 0
        THEN checkpoint_file' = k /\ Continue("meta")
        ELSE checkpoint_file' = checkpoint_file /\ Raise("AttributeError")
    /\ UNCHANGED <<args, nckpt, tdata, image_size, files, madedirs,
                   n_sample_batches>>
    /\ UNCHANGED <<genVars, loopVars>>

CheckMetagraph ==
    /\ pc = "meta"
    /\ \E exists \in BOOLEAN :
        IF exists THEN Continue("tdata")
        ELSE Report("[!] Cannot find metagraph")
    /\ UNCHANGED <<args, envVars, n_sample_batches>>
    /\ UNCHANGED <<genVars, loopVars>>

\* except (FileNotFoundError, IOError, KeyError)
LoadTrainingData ==
    /\ pc = "tdata"
    /\ \E kind \in TrainingDataKinds :
        /\ tdata' = kind
        /\ CASE kind = "ok" ->
                  image_size' = PresetSize /\ Continue("files")
             [] kind \in {"absent", "unreadable", "nopreset"} ->
                  /\ image_size' = image_size
                  /\ Report("[!] Unable to load training data")
             [] kind = "notpickle" ->
                  image_size' = image_size /\ Raise("UnpicklingError")
             [] kind = "nosize" ->
                  image_size' = image_size /\ Raise("AttributeError")
    /\ UNCHANGED <<args, nckpt, checkpoint_file, files, madedirs,
                   n_sample_batches>>
    /\ UNCHANGED <<genVars, loopVars>>

ResolveFiles ==
    /\ pc = "files"
    /\ IF args.annotate
       THEN LET fs == IF args.files # <<>> THEN FilterExisting(args.files)
                      ELSE <<>>
            IN  /\ files' = fs
                /\ IF fs = <<>>
                   THEN madedirs' = madedirs /\ Report("[!] No files specified")
                   ELSE \E dir \in {"exists", "created", "failed"} :
                        /\ madedirs' = (dir # "exists")
                        /\ IF dir = "failed" THEN Raise("OSError")
                           ELSE Continue("session")
       ELSE files' = <<>> /\ madedirs' = madedirs /\ Continue("session")
    /\ UNCHANGED <<args, nckpt, checkpoint_file, tdata, image_size,
                   n_sample_batches>>
    /\ UNCHANGED <<genVars, loopVars>>

\* with tf.Session() as sess:
AcquireSession ==
    /\ pc = "session"
    /\ session' = "held"
    /\ acquisitions' = acquisitions + 1
    /\ pc' = "build"
    /\ UNCHANGED <<args, envVars, n_sample_batches, stdout, ret, exc>>
    /\ UNCHANGED <<genVars, loopVars>>

\* net.build_from_metagraph, then the generator object and the batch count.
BuildModel ==
    /\ pc = "build"
    /\ \E built \in BOOLEAN :
        IF ~built
        THEN /\ Raise("BuildError")
             /\ UNCHANGED <<gen, n_sample_batches>>
        ELSE /\ gen' = NewGen
             /\ IF args.batch_size = 0
                THEN /\ Raise("ZeroDivisionError")
                     /\ UNCHANGED n_sample_batches
                ELSE /\ n_sample_batches' = CeilDiv(Len(files), args.batch_size)
                     /\ Continue("loop")
    /\ UNCHANGED <<args, envVars, reply, requests, readLog, yielded>>
    /\ UNCHANGED loopVars

\* The for statement asks the generator for the next batch.
ForNext ==
    /\ pc = "loop"
    /\ gen.state \in {"created", "suspended"}
    /\ GenResume(files, args.batch_size)
    /\ IF reply' = "done"
       THEN /\ session' = WithExit(session)
            /\ pc' = "finish"
            /\ UNCHANGED <<stdout, ret, exc, acquisitions>>
       ELSE Continue("loop")
    /\ UNCHANGED <<args, envVars, n_sample_batches>>
    /\ UNCHANGED loopVars

ForRead ==
    /\ pc = "loop"
    /\ GenReadFile(image_size)
    /\ IF reply' = "error" THEN Raise("cv2.error") ELSE Continue("loop")
    /\ UNCHANGED <<args, envVars, n_sample_batches>>
    /\ UNCHANGED loopVars

ForYield ==
    /\ pc = "loop"
    /\ GenYield
    /\ x' = gen.images
    /\ names' = gen.names
    /\ Continue("infer")
    /\ UNCHANGED <<args, envVars, n_sample_batches, boxes, i, inferLog,
                   writes, disk>>

\* boxes = sess.run(net.result, feed_dict=feed)
Infer ==
    /\ pc = "infer"
    /\ \E ran \in BOOLEAN :
        /\ inferLog' = Append(inferLog, [offset |-> gen.offset,
                                         session |-> session, ran |-> ran])
        /\ IF ran
           THEN /\ boxes' = RunNet(x)
                /\ i' = 0
                /\ Continue(IF args.annotate /\ args.dump_prediction
                            THEN "dump" ELSE "loop")
           ELSE /\ Raise("InferenceError")
                /\ UNCHANGED <<boxes, i>>
    /\ UNCHANGED <<args, envVars, n_sample_batches, x, names, writes, disk>>
    /\ UNCHANGED genVars

\* np.save(args.output_dir + '/' + names[i] + '.npy', boxes[i])
SavePrediction ==
    /\ pc = "dump"
    /\ i < Len(names)
    /\ \E saved \in BOOLEAN :
        IF saved
        THEN /\ disk' = Save(disk, NpyName(names[i + 1]), boxes[i + 1])
             /\ writes' = Append(writes, [fn |-> NpyName(names[i + 1]),
                                          row |-> boxes[i + 1],
                                          offset |-> gen.offset, pos |-> i])
             /\ i' = i + 1
             /\ Continue(IF i + 1 < Len(names) THEN "dump" ELSE "loop")
        ELSE /\ Raise("SaveError")
             /\ UNCHANGED <<disk, writes, i>>
    /\ UNCHANGED <<args, envVars, n_sample_batches, x, names, boxes, inferLog>>
    /\ UNCHANGED genVars

\* print('[i] All done.'); return 0
Finish ==
    /\ pc = "finish"
    /\ stdout' = Append(stdout, "[i] All done.")
    /\ ret' = "0"
    /\ pc' = "exit"
    /\ UNCHANGED <<args, envVars, n_sample_batches, exc, session, acquisitions>>
    /\ UNCHANGED <<genVars, loopVars>>

Next ==
    \/ GetCheckpointState
    \/ ResolveCheckpoint
    \/ CheckMetagraph
    \/ LoadTrainingData
    \/ ResolveFiles
    \/ AcquireSession
    \/ BuildModel
    \/ ForNext
    \/ ForRead
    \/ ForYield
    \/ Infer
    \/ SavePrediction
    \/ Finish

Spec == Init /\ [][Next]_vars

\* ------------------------------------------ the generator driven directly
CallNext ==
    /\ pc = "generator"
    /\ requests < MaxRequests
    /\ GenResume(files, args.batch_size)
    /\ UNCHANGED driverVars

StepRead ==
    /\ pc = "generator"
    /\ GenReadFile(image_size)
    /\ UNCHANGED driverVars

StepYield ==
    /\ pc = "generator"
    /\ GenYield
    /\ UNCHANGED driverVars

NextGen == CallNext \/ StepRead \/ StepYield

GenSpec == InitGen /\ [][NextGen]_vars

\* ================================================================ claims
NSamples == Len(files)
BatchSize == args.batch_size
LastComponent(p) == p[Len(p)]
OnDisk(p) == p \in Existing
Printed(line) == \E n \in 1..Len(stdout) : stdout[n] = line
Exhausted == gen.state = "done" /\ reply = "done"
Dumping == args.annotate /\ args.dump_prediction

RECURSIVE TotalSize(_)
TotalSize(bs) == IF bs = <<>> THEN 0 ELSE Len(Head(bs).images) + TotalSize(Tail(bs))

\* C1: for a sample list of length N and a batch size B > 0 the generator
\* yields ceil(N/B) batches whose sizes sum to N, none of them empty and all
\* but the last of size B, and the count announced by the driver is the
\* number of batches yielded.
C1_BatchCount ==
    /\ \A k \in 1..Len(yielded) :
        /\ Len(yielded[k].images) >= 1
        /\ Len(yielded[k].images) <= BatchSize
        /\ k < Len(yielded) => Len(yielded[k].images) = BatchSize
    /\ (Exhausted /\ BatchSize > 0) =>
        /\ Len(yielded) = (NSamples + BatchSize - 1) \div BatchSize
        /\ TotalSize(yielded) = NSamples
        /\ NSamples = 0 => yielded = <<>>
        /\ pc # "generator" => n_sample_batches = Len(yielded)

C1_Witness ==
    /\ pc = "exit" /\ ret = "0" /\ Exhausted
    /\ NSamples = 3 /\ BatchSize = 2
    /\ Len(yielded) = 2 /\ Len(yielded[2].images) = 1
    /\ n_sample_batches = 2

\* C2: in the batch that contains sample i the name and the image at
\* position i - k*B are the base filename of samples[i] and the image decoded
\* from samples[i], and a dumped output row is written under the name at the
\* same position of the same batch.
C2_Correspondence ==
    /\ \A k \in 1..Len(yielded) :
        LET b == yielded[k] IN
        /\ Len(b.names) = Len(b.images)
        /\ \A j \in 1..Len(b.names) :
            /\ b.offset + j <= NSamples
            /\ b.names[j] = LastComponent(files[b.offset + j])
            /\ b.images[j].src = files[b.offset + j]
    /\ (Exhausted /\ BatchSize > 0) =>
        \A n \in 1..NSamples :
            LET k == (n - 1) \div BatchSize IN
            /\ k + 1 <= Len(yielded)
            /\ yielded[k + 1].offset = k * BatchSize
            /\ n - k * BatchSize <= Len(yielded[k + 1].names)
            /\ yielded[k + 1].names[n - k * BatchSize] = LastComponent(files[n])
            /\ yielded[k + 1].images[n - k * BatchSize].src = files[n]
    /\ pc = "dump" =>
        /\ Len(boxes) = Len(names) /\ Len(x) = Len(names)
        /\ \A j \in 1..Len(names) : boxes[j].of = x[j].src
    /\ \A w \in 1..Len(writes) :
        LET n == writes[w].offset + writes[w].pos + 1 IN
        /\ n <= NSamples
        /\ writes[w].fn = <<"output_dir", LastComponent(files[n]), ".npy">>
        /\ writes[w].row.of = files[n]

C2_Witness ==
    /\ pc = "exit" /\ ret = "0" /\ Dumping
    /\ files = <<PathB, PathA1, PathA2>> /\ BatchSize = 2
    /\ Len(writes) = 3
    /\ yielded[1].names = <<"b.jpg", "a.jpg">>

\* C3: after a completed run with --annotate and --dump-prediction there is
\* one artifact per resolved input, N artifacts for N samples, each holding
\* the output of its own sample.
C3_OneArtifactPerSample ==
    (pc = "exit" /\ ret = "0" /\ Dumping) =>
        /\ Cardinality(DOMAIN disk) = NSamples
        /\ \A n \in 1..NSamples :
            LET fn == <<"output_dir", LastComponent(files[n]), ".npy">> IN
            /\ fn \in DOMAIN disk
            /\ disk[fn].of = files[n]

\* C4: an out-of-range checkpoint index ends the run with return code 1 and a
\* reported '[!]' line naming the checkpoint, without an exception and
\* without a session.
IndexOutOfRange ==
    /\ pc \notin {"start", "index"}
    /\ ~Printed("[!] No network state found")
    /\ ~(0 <= args.checkpoint /\ args.checkpoint < nckpt)
    /\ ~(args.checkpoint < 0 /\ -args.checkpoint <= nckpt)

C4_BadIndexReported ==
    IndexOutOfRange =>
        /\ pc = "exit" /\ ret = "1" /\ exc = ""
        /\ stdout = <<"[!] Cannot find checkpoint">>
        /\ acquisitions = 0

\* C5: a missing checkpoint state, a missing metagraph and an unreadable or
\* malformed training-data file are each reported as one '[!]' line and
\* return code 1; none leaves main() as an exception.
TrainingDataLoaded == tdata # "unread"

C5_ConfigErrorsReported ==
    /\ Printed("[!] No network state found") =>
        pc = "exit" /\ ret = "1" /\ exc = "" /\ Len(stdout) = 1
    /\ Printed("[!] Cannot find metagraph") =>
        pc = "exit" /\ ret = "1" /\ exc = "" /\ Len(stdout) = 1
    /\ (TrainingDataLoaded /\ tdata # "ok") =>
        /\ pc = "exit" /\ ret = "1" /\ exc = ""
        /\ stdout = <<"[!] Unable to load training data">>

\* C6: with --annotate and no positional file on disk the run returns 1
\* reporting that no files were specified, before the output directory is
\* created and before the session is acquired; otherwise the resolved list is
\* the existing files in command-line order.
FilesResolved == tdata = "ok" /\ pc # "files"

C6_NoFiles ==
    /\ (args.annotate /\ SelectSeq(args.files, OnDisk) = <<>>) =>
        /\ acquisitions = 0 /\ session = "never" /\ ~madedirs
        /\ FilesResolved =>
            /\ pc = "exit" /\ ret = "1" /\ exc = ""
            /\ stdout = <<"[!] No files specified">>
    /\ (args.annotate /\ FilesResolved /\ SelectSeq(args.files, OnDisk) # <<>>) =>
        /\ files = SelectSeq(args.files, OnDisk)
        /\ ~Printed("[!] No files specified")

C6_Witness ==
    /\ args.annotate /\ args.files = <<PathC, PathC>>
    /\ pc = "exit" /\ ret = "1" /\ stdout = <<"[!] No files specified">>

\* C7: the generator is done after finitely many requests (one more than
\* ceil(N/B) at most), and once done every later request reports done
\* without yielding a batch or reading a file.
C7_OneShot ==
    /\ [](/\ Len(yielded) <= (NSamples + BatchSize - 1) \div BatchSize
          /\ requests > (NSamples + BatchSize - 1) \div BatchSize
                => gen.state = "done")
    /\ [][gen.state = "done" =>
            /\ gen' = gen /\ yielded' = yielded /\ readLog' = readLog
            /\ requests' # requests => reply' = "done"]_vars

C7_Witness ==
    /\ pc = "generator" /\ Exhausted
    /\ Len(yielded) = 2
    /\ requests = Len(yielded) + 2

\* C8: a file that fails to decode aborts the run: the exception leaves
\* main(), the file is neither skipped nor retried, its batch is never
\* yielded or inferred, nothing is read or written afterwards, and the run
\* does not end in success.
DecodeFailed == \E n \in 1..Len(readLog) : ~readLog[n].decoded

C8_DecodeAborts ==
    DecodeFailed =>
        LET f == Len(readLog)
            k == (f - 1) \div BatchSize
        IN
        /\ pc = "crashed" /\ exc = "cv2.error"
        /\ ret = "none" /\ ~Printed("[i] All done.")
        /\ ~readLog[f].decoded
        /\ \A n \in 1..f : readLog[n].file = files[n]
        /\ \A n \in 1..(f - 1) : readLog[n].decoded
        /\ Len(yielded) = k /\ Len(inferLog) = k
        /\ \A w \in 1..Len(writes) : writes[w].offset < k * BatchSize
        /\ Dumping => Len(writes) = k * BatchSize
        /\ ~ENABLED Next

C8_Witness ==
    /\ DecodeFailed /\ pc = "crashed" /\ Dumping
    /\ NSamples = 3 /\ BatchSize = 2
    /\ Len(readLog) = 3 /\ Len(yielded) = 1 /\ Len(writes) = 2

\* C9: batches are emitted at offsets 0, B, 2B, ...; a batch is handed to
\* inference only when all its files are decoded; and no file of the next
\* batch is read before the inference and the writes of the batch in flight
\* are complete, so at most one batch is in flight.
C9_Alternation ==
    /\ \A k \in 1..Len(yielded) :
        /\ yielded[k].offset = (k - 1) * BatchSize
        /\ Len(yielded[k].images)
             = (IF k * BatchSize <= NSamples THEN BatchSize
                ELSE NSamples - (k - 1) * BatchSize)
    /\ Len(inferLog) <= Len(yielded)
    /\ Len(yielded) <= Len(inferLog) + 1
    /\ Len(readLog) >= TotalSize(yielded)
    /\ pc \in {"infer", "dump"} =>
        /\ gen.state = "suspended"
        /\ Len(readLog) = TotalSize(yielded)
        /\ x = yielded[Len(yielded)].images
        /\ names = yielded[Len(yielded)].names
    /\ pc = "infer" => Len(inferLog) = Len(yielded) - 1
    /\ Len(readLog) > TotalSize(yielded) =>
        /\ pc \in {"loop", "crashed"}
        /\ Len(inferLog) = Len(yielded)
        /\ \A e \in 1..Len(inferLog) : inferLog[e].ran
        /\ Dumping => Len(writes) = TotalSize(yielded)

C9_Witness ==
    /\ pc = "loop" /\ Dumping /\ BatchSize = 2
    /\ Len(yielded) = 1 /\ Len(readLog) = 3 /\ Len(writes) = 2

\* C10: the session is acquired at most once, every inference call runs
\* while it is held, it is released on every path that leaves the loop, by
\* completion or by an exception, and it is never acquired on the paths that
\* return 1.
C10_SessionScope ==
    /\ acquisitions <= 1
    /\ \A e \in 1..Len(inferLog) : inferLog[e].session = "held"
    /\ session = "held" <=> pc \in {"build", "loop", "infer", "dump"}
    /\ pc \in {"finish", "exit", "crashed"} =>
        session = (IF acquisitions = 1 THEN "closed" ELSE "never")
    /\ (pc = "exit" /\ ret = "1") => acquisitions = 0
    /\ exc \in {"BuildError", "ZeroDivisionError", "cv2.error",
                "InferenceError", "SaveError"} =>
        acquisitions = 1 /\ session = "closed"

C10_Witness ==
    /\ pc = "crashed" /\ exc = "SaveError"
    /\ session = "closed" /\ acquisitions = 1
    /\ Len(inferLog) = 2 /\ Len(writes) = 2

====
